---- MODULE Spec2Model ----
(***************************************************************************)
(* tmp-consul-clean: scan a temp root for disposable top-level entries,    *)
(* estimate their size with du, delete them (or only say so with           *)
(* -dry-run) and print a summary.                                          *)
(*                                                                         *)
(* Two builds of the program are modelled side by side:                    *)
(*   "main"  src/main.go                                                   *)
(*   "part"  src/unnamed/part_000, the program at lines 188-411            *)
(* They share the match rules, estimateTreeSize and humanizeBytes and      *)
(* differ in how run recognises a permission error, wraps fatal errors and *)
(* writes its log lines.  Lines 1-186 of src/unnamed/part_000 hold an      *)
(* earlier revision of the program (directories only, no permission        *)
(* tolerance); it is not modelled.                                         *)
(*                                                                         *)
(* A Go string is a sequence of one-character strings, so that HasPrefix,  *)
(* Contains, ToLower, the regular expressions, ParseInt and FormatInt      *)
(* work on characters.  An int64 is seven base-1024 digits, least          *)
(* significant first, the seventh holding bits 60..63 (two's complement):  *)
(* TLC's own integers are too narrow for a byte count.                     *)
(***************************************************************************)
EXTENDS Integers, Sequences, FiniteSets, TLC

VARIABLES build, tmpRoot, dryRun, files, fs, pc, dirs, idx, totalBytes,
          calls, log, summary, err, exitCode, probe, answer

vars == <<build, tmpRoot, dryRun, files, fs, pc, dirs, idx, totalBytes,
          calls, log, summary, err, exitCode, probe, answer>>

runVars == <<build, tmpRoot, dryRun, files, fs, pc, dirs, idx, totalBytes,
             calls, log, summary, err, exitCode>>

\* ---------------------------------------------------------------- bounds

\* the longest directory listing ReadDir returns in the model
MaxFiles == 3

\* ---------------------------------------------------------------- strings

Range(s) == {s[i] : i \in 1..Len(s)}

\* the element of a one-element set: Only({e : x \in {d}}) is e with x bound to
\* the value of d, computed once
Only(S) == CHOOSE x \in S : TRUE

\* strings.HasPrefix
HasPrefix(s, pfx) == Len(s) >= Len(pfx) /\ SubSeq(s, 1, Len(pfx)) = pfx

\* strings.Contains
Contains(s, sub) ==
    \E i \in 1..(Len(s) - Len(sub) + 1) : SubSeq(s, i, i + Len(sub) - 1) = sub

UpperLetters == <<"A","B","C","D","E","F","G","H","I","J","K","L","M","N","O","P","Q","R","S","T","U","V","W","X","Y","Z">>
LowerLetters == <<"a","b","c","d","e","f","g","h","i","j","k","l","m","n","o","p","q","r","s","t","u","v","w","x","y","z">>

\* strings.ToLower, on the ASCII texts of the model
ToLower(s) ==
    [i \in 1..Len(s) |->
        IF \E k \in 1..26 : UpperLetters[k] = s[i]
        THEN LowerLetters[CHOOSE k \in 1..26 : UpperLetters[k] = s[i]]
        ELSE s[i]]

DigitChars == <<"0","1","2","3","4","5","6","7","8","9">>
IsDigit(c) == \E k \in 1..10 : DigitChars[k] = c
DigitVal(c) == (CHOOSE k \in 1..10 : DigitChars[k] = c) - 1

\* \s of Go's regexp: [\t\n\f\r ]
IsSpace(c) == c \in {"\t", "\n", "\f", "\r", " "}

\* ---------------------------------------------------------------- int64

Zero64 == <<0, 0, 0, 0, 0, 0, 0>>

\* the modulus of digit i: the seventh digit has four bits
Radix(i) == IF i = 7 THEN 16 ELSE 1024

IsNeg(v) == v[7] >= 8

RECURSIVE Carry(_, _, _)
Carry(a, b, i) ==
    IF i = 1 THEN 0 ELSE (a[i-1] + b[i-1] + Carry(a, b, i-1)) \div Radix(i-1)

\* a + b of int64, wrapping
Add64(a, b) ==
    Only({ [i \in 1..7 |-> (x[i] + y[i] + Carry(x, y, i)) % Radix(i)] :
           x \in {a}, y \in {b} })

\* -v of int64, as the unsigned magnitude of a negative v
Neg64(v) == Add64([i \in 1..7 |-> Radix(i) - 1 - v[i]], <<1, 0, 0, 0, 0, 0, 0>>)

\* v <= 1024 in the place of v < 1024
LessOrEqual1024(v) ==
    \/ IsNeg(v)
    \/ /\ \A i \in 3..7 : v[i] = 0
       /\ v[2] = 0 \/ (v[2] = 1 /\ v[1] = 0)

\* v < 1024 of int64 (signed)
Less1024(v) == IsNeg(v) \/ \A i \in 2..7 : v[i] = 0

\* v /= 1024 of a non-negative int64
Div1024(v) == [i \in 1..7 |-> IF i < 7 THEN v[i+1] ELSE 0]

\* the remainder after digits i+1..7 of v were divided by ten
RECURSIVE Rem10(_, _)
Rem10(v, i) == IF i > 7 THEN 0 ELSE (Rem10(v, i+1) * 1024 + v[i]) % 10

\* the unsigned v divided by ten
Div10(v) == [i \in 1..7 |-> (Rem10(v, i+1) * 1024 + v[i]) \div 10]

RECURSIVE FormatUint(_)
FormatUint(v) ==
    IF v = Zero64 THEN <<>>
    ELSE Only({ Append(FormatUint(q), DigitChars[Rem10(v, 1) + 1]) : q \in {Div10(v)} })

\* strconv.FormatInt(v, 10)
FormatInt(v) ==
    Only({ IF n = Zero64 THEN <<"0">>
           ELSE IF IsNeg(n) THEN Only({ <<"-">> \o FormatUint(m) : m \in {Neg64(n)} })
           ELSE FormatUint(n) : n \in {v} })

\* the carry into digit i of v*10 + d
RECURSIVE MulCarry(_, _, _)
MulCarry(v, d, i) ==
    IF i = 1 THEN d ELSE (v[i-1] * 10 + MulCarry(v, d, i-1)) \div Radix(i-1)

MulAdd10(v, d) ==
    Only({ [i \in 1..7 |-> (x[i] * 10 + MulCarry(x, y, i)) % Radix(i)] :
           x \in {v}, y \in {d} })

\* v*10 + d leaves the range of int64
MulAdd10Overflows(v, d) ==
    \/ (v[7] * 10 + MulCarry(v, d, 7)) >= 16
    \/ IsNeg(MulAdd10(v, d))

\* the first n digits of s as an int64, when they fit
RECURSIVE ParseDigits(_, _)
ParseDigits(s, n) ==
    IF n = 0 THEN [ok |-> TRUE, v |-> Zero64]
    ELSE Only({ IF ~head.ok \/ MulAdd10Overflows(head.v, DigitVal(s[n]))
                THEN [ok |-> FALSE, v |-> Zero64]
                ELSE [ok |-> TRUE, v |-> MulAdd10(head.v, DigitVal(s[n]))] :
                head \in {ParseDigits(s, n - 1)} })

\* strconv.ParseInt(s, 10, 64) of a string of decimal digits
ParseInt(s) ==
    Only({ IF Len(t) = 0 THEN [ok |-> FALSE, v |-> Zero64] ELSE ParseDigits(t, Len(t)) :
           t \in {s} })

\* ---------------------------------------------------------------- match rules

eligiblePrefixes == <<
    <<"0","0","7","-","a","g","e","n","t">>, <<"a","g","e","n","t","_","s","m","i","t","h">>, <<"g","o","-","b","u","i","l","d">>, <<"j","o","n","e","s","-","a","g","e","n","t">>, <<"T","e","s","t">>,
    <<"t","e","s","t","-","a","g","e","n","t">>, <<"t","e","s","t","-","c","o","n","s","u","l","-","a","g","e","n","t">>, <<"c","o","n","s","u","l">>, <<"A","g","e","n","t","1","-","a","g","e","n","t">>,
    <<"A","g","e","n","t","2","-","a","g","e","n","t">>, <<"b","e","t","t","y","-","a","g","e","n","t">>, <<"b","o","b","-","a","g","e","n","t">>, <<"b","o","n","n","i","e","-","a","g","e","n","t">>,
    <<"d","c","1","-","a","g","e","n","t">>, <<"d","c","2","-","a","g","e","n","t">>, <<"g","o","p","l","s","-">>, <<"d","c","1","-","c","o","n","s","u","l">>, <<"d","c","2","-","c","o","n","s","u","l">>,
    <<"t","e","s","t","-","c","o","n","t","a","i","n","e","r">> >>

eligibleFilePrefixes == << <<"s","n","a","p","s","h","o","t">>, <<"c","o","n","f","i","g","-","e","r","r","-">> >>

\* regular-expression tokens: a literal character, "." (any character but a
\* newline), ".*" and an alternation of literal strings
Lit(c) == [t |-> "lit", c |-> c, alts |-> {}]
AnyChar == [t |-> "any", c |-> "", alts |-> {}]
AnyStar == [t |-> "star", c |-> "", alts |-> {}]
Alt(S) == [t |-> "alt", c |-> "", alts |-> S]
Lits(s) == [i \in 1..Len(s) |-> Lit(s[i])]

\* a compiled pattern: bol is a leading ^, eol a trailing $
Regexp(bol, body, eol) == [bol |-> bol, body |-> body, eol |-> eol]

\* FilePattern without the trailing $
FilePatternNoEnd(body) == Regexp(TRUE, body, FALSE)

\* a pattern of eligibleFilePatterns: ^body$
FilePattern(body) == Regexp(TRUE, body, TRUE)

eligibleFilePatterns == <<
    \* ^go\..*\.(sum|mod)$
    FilePattern(Lits(<<"g","o",".">>) \o <<AnyStar>> \o Lits(<<".">>) \o <<Alt({<<"s","u","m">>, <<"m","o","d">>})>>),
    \* ^gopls\..*-heap.pb.gz$
    FilePattern(Lits(<<"g","o","p","l","s",".">>) \o <<AnyStar>> \o Lits(<<"-","h","e","a","p">>) \o <<AnyChar>>
                 \o Lits(<<"p","b">>) \o <<AnyChar>> \o Lits(<<"g","z">>)),
    \* ^gopls\..*-goroutines.txt$
    FilePattern(Lits(<<"g","o","p","l","s",".">>) \o <<AnyStar>> \o Lits(<<"-","g","o","r","o","u","t","i","n","e","s">>) \o <<AnyChar>>
                 \o Lits(<<"t","x","t">>)),
    \* ^gopls-.*.log$
    FilePattern(Lits(<<"g","o","p","l","s","-">>) \o <<AnyStar>> \o <<AnyChar>> \o Lits(<<"l","o","g">>)),
    \* ^gopls\..*\.zip$
    FilePattern(Lits(<<"g","o","p","l","s",".">>) \o <<AnyStar>> \o Lits(<<".","z","i","p">>)) >>

\* the positions just after a match of tokens k.. of body that starts at s[i]
RECURSIVE MatchEnds(_, _, _, _)
MatchEnds(body, k, s, i) ==
    IF k > Len(body) THEN {i}
    ELSE LET tok == body[k] IN
      CASE tok.t = "lit" ->
             IF i <= Len(s) /\ s[i] = tok.c THEN MatchEnds(body, k+1, s, i+1) ELSE {}
        [] tok.t = "any" ->
             IF i <= Len(s) /\ s[i] # "\n" THEN MatchEnds(body, k+1, s, i+1) ELSE {}
        [] tok.t = "star" ->
             UNION { MatchEnds(body, k+1, s, j) :
                     j \in {j \in i..(Len(s)+1) : \A x \in i..(j-1) : s[x] # "\n"} }
        [] tok.t = "alt" ->
             UNION { IF i + Len(a) - 1 <= Len(s) /\ SubSeq(s, i, i + Len(a) - 1) = a
                     THEN MatchEnds(body, k+1, s, i + Len(a)) ELSE {} : a \in tok.alts }

\* (*Regexp).MatchString: a match anywhere in s, tied to its ends by ^ and $
MatchString(re, s) ==
    \E i \in 1..(Len(s)+1) :
        /\ re.bol => i = 1
        /\ \E j \in MatchEnds(re.body, 1, s, i) : re.eol => j = Len(s) + 1

\* shouldDelete trying every rule on every entry, directory or file
shouldDeleteAnyRule(dir, name) ==
    \/ name = <<"c","o","n","s","u","l","-","t","e","s","t">>
    \/ \E k \in 1..Len(eligiblePrefixes) : HasPrefix(name, eligiblePrefixes[k])
    \/ \E k \in 1..Len(eligibleFilePrefixes) : HasPrefix(name, eligibleFilePrefixes[k])
    \/ \E k \in 1..Len(eligibleFilePatterns) : MatchString(eligibleFilePatterns[k], name)

\* the closure shouldDelete of scanForToplevelStuff
shouldDelete(dir, name) ==
    IF dir
    THEN \/ name = <<"c","o","n","s","u","l","-","t","e","s","t">>
         \/ \E k \in 1..Len(eligiblePrefixes) : HasPrefix(name, eligiblePrefixes[k])
    ELSE \/ \E k \in 1..Len(eligibleFilePrefixes) : HasPrefix(name, eligibleFilePrefixes[k])
         \/ \E k \in 1..Len(eligibleFilePatterns) : MatchString(eligibleFilePatterns[k], name)

\* ---------------------------------------------------------------- humanizeBytes

unitF(v, s) == FormatInt(v) \o s

\* each v /= 1024 binds the quotient: Only({e : q \in {Div1024(v)}})
humanizeBytes(v) ==
    Only({
    IF Less1024(v0) THEN unitF(v0, <<"B">>)
    ELSE Only({
    IF Less1024(v1) THEN unitF(v1, <<"K">>)
    ELSE Only({
    IF Less1024(v2) THEN unitF(v2, <<"M">>)
    ELSE Only({
    IF Less1024(v3) THEN unitF(v3, <<"G">>)
    ELSE Only({ unitF(v4, <<"T">>) : v4 \in {Div1024(v3)} })
    : v3 \in {Div1024(v2)} })
    : v2 \in {Div1024(v1)} })
    : v1 \in {Div1024(v0)} })
    : v0 \in {v} })

\* ---------------------------------------------------------------- paths

\* the first n characters of p without a "/" that follows a "/"
RECURSIVE Collapse(_, _)
Collapse(p, n) ==
    IF n = 0 THEN <<>>
    ELSE Only({ IF p[n] = "/" /\ r # <<>> /\ r[Len(r)] = "/" THEN r ELSE Append(r, p[n]) :
                r \in {Collapse(p, n - 1)} })

\* filepath.Clean of a path without "." and ".." elements
Clean(p) ==
    Only({ IF Len(c) > 1 /\ c[Len(c)] = "/" THEN SubSeq(c, 1, Len(c) - 1) ELSE c :
           c \in {Collapse(p, Len(p))} })

\* filepath.Join(a, b)
Join(a, b) ==
    IF a = <<>> THEN Clean(b)
    ELSE IF b = <<>> THEN Clean(a)
    ELSE Clean(a \o <<"/">> \o b)

\* ---------------------------------------------------------------- the environment

Builds == {"main", "part"}

\* the values of -tmp-root
Roots == {<<>>, <<"/","t","m","p">>, <<"/","t","m","p","/">>}

\* the names the root may hold, in the order ReadDir lists them (by name)
MasterNames == << <<"g","o","-","b","u","i","l","d","-","1","2","3">>, <<"g","o","p","l","s",".","a","b","c","-","h","e","a","p",".","p","b",".","g","z">>, <<"k","e","e","p","m","e">>, <<"s","n","a","p","s","h","o","t",".","b","i","n">> >>

\* the entries at the positions S of MasterNames, each a directory or a file
RECURSIVE ListingOf(_, _)
ListingOf(S, isDir) ==
    IF S = {} THEN <<>>
    ELSE LET m == CHOOSE x \in S : \A y \in S : x <= y IN
         <<[name |-> MasterNames[m], dir |-> isDir[m]]>> \o ListingOf(S \ {m}, isDir)

Listings ==
    UNION { { ListingOf(S, isDir) : isDir \in [S -> BOOLEAN] } :
            S \in {T \in SUBSET (1..Len(MasterNames)) : Cardinality(T) <= MaxFiles} }

\* an error value: nil, or an error with its description
NoError == [failed |-> FALSE, text |-> <<>>]
Error(text) == [failed |-> TRUE, text |-> text]

\* what ReadDir(tmpRoot) may return beside the listing
ReadDirErrors(root) ==
    {NoError, Error(<<"o","p","e","n"," ">> \o root \o <<":"," ","n","o"," ","s","u","c","h"," ","f","i","l","e"," ","o","r"," ","d","i","r","e","c","t","o","r","y">>)}

\* the totals du may print
SizeTexts == {<<"7","0","0">>, <<"9","2","2","3","3","7","2","0","3","6","8","5","4","7","7","5","8","0","7">>}

\* what running du on d may produce: the error of cmd.Run, stdout, stderr
DuReply(runErr, stdout, stderr) ==
    [failed |-> runErr.failed, text |-> runErr.text, stdout |-> stdout, stderr |-> stderr]

DuReplies(d) ==
    { DuReply(NoError, n \o <<"\t">> \o d \o <<"\n">>, <<>>) : n \in SizeTexts }
    \cup
    { DuReply(NoError, <<>>, <<>>),
      DuReply(NoError, <<"1","2">>, <<>>),
      DuReply(NoError, <<"9","2","2","3","3","7","2","0","3","6","8","5","4","7","7","5","8","0","8","\t">> \o d \o <<"\n">>, <<>>),
      DuReply(Error(<<"e","x","i","t"," ","s","t","a","t","u","s"," ","1">>), <<"4","0","9","6","\t">> \o d \o <<"\n">>,
              <<"d","u",":"," ","c","a","n","n","o","t"," ","r","e","a","d"," ","d","i","r","e","c","t","o","r","y"," ","'">> \o d \o <<"/","x","'",":"," ","P","e","r","m","i","s","s","i","o","n"," ","d","e","n","i","e","d","\n">>),
      DuReply(Error(<<"f","o","r","k","/","e","x","e","c"," ","/","u","s","r","/","b","i","n","/","d","u",":"," ","p","e","r","m","i","s","s","i","o","n"," ","d","e","n","i","e","d">>), <<>>, <<>>),
      DuReply(Error(<<"e","x","i","t"," ","s","t","a","t","u","s"," ","1">>), <<>>,
              <<"d","u",":"," ","c","a","n","n","o","t"," ","a","c","c","e","s","s"," ","'">> \o d \o <<"'",":"," ","N","o"," ","s","u","c","h"," ","f","i","l","e"," ","o","r"," ","d","i","r","e","c","t","o","r","y","\n">>) }

\* what os.RemoveAll(d) may return
RemoveReplies(d) ==
    { NoError,
      Error(<<"u","n","l","i","n","k","a","t"," ">> \o d \o <<":"," ","p","e","r","m","i","s","s","i","o","n"," ","d","e","n","i","e","d">>),
      Error(<<"u","n","l","i","n","k","a","t"," ">> \o d \o <<":"," ","P","e","r","m","i","s","s","i","o","n"," ","d","e","n","i","e","d">>),
      Error(<<"u","n","l","i","n","k","a","t"," ">> \o d \o <<":"," ","r","e","a","d","-","o","n","l","y"," ","f","i","l","e"," ","s","y","s","t","e","m">>) }

\* ---------------------------------------------------------------- estimateTreeSize

\* duRE = ^([0-9]+)\s+ : the leading digits of s, when a space follows them
RECURSIVE DigitsFrom(_, _)
DigitsFrom(s, i) ==
    IF i > Len(s) \/ ~IsDigit(s[i]) THEN <<>>
    ELSE <<s[i]>> \o DigitsFrom(s, i + 1)

LeadingDigits(s) == DigitsFrom(s, 1)

\* duRE.FindStringSubmatch(s): the submatch, or none
duRE(s) ==
    LET ds == LeadingDigits(s) IN
    IF Len(ds) >= 1 /\ Len(s) > Len(ds) /\ IsSpace(s[Len(ds) + 1])
    THEN [found |-> TRUE, m1 |-> ds]
    ELSE [found |-> FALSE, m1 |-> <<>>]

\* estimateTreeSize taking a total ParseInt rejects for 0
estimateTreeSizeNoRangeCheck(d, reply) ==
    IF d = <<>>
    THEN [v |-> Zero64, err |-> Error(<<"m","i","s","s","i","n","g"," ","d","i","r","e","c","t","o","r","y"," ","n","a","m","e">>), ran |-> FALSE]
    ELSE IF reply.failed
    THEN [v |-> Zero64, err |-> Error(reply.text \o <<":"," ">> \o reply.stderr), ran |-> TRUE]
    ELSE IF ~duRE(reply.stdout).found
    THEN [v |-> Zero64, err |-> Error(<<"u","n","r","e","c","o","g","n","i","z","e","d"," ","d","u"," ","o","u","t","p","u","t",":"," ">> \o reply.stdout),
          ran |-> TRUE]
    ELSE [v |-> ParseInt(duRE(reply.stdout).m1).v, err |-> NoError, ran |-> TRUE]

\* estimateTreeSize(d) when du answers with reply; ran tells whether du was run
estimateTreeSize(d, reply) ==
    IF d = <<>>
    THEN [v |-> Zero64, err |-> Error(<<"m","i","s","s","i","n","g"," ","d","i","r","e","c","t","o","r","y"," ","n","a","m","e">>), ran |-> FALSE]
    ELSE IF reply.failed
    THEN [v |-> Zero64, err |-> Error(reply.text \o <<":"," ">> \o reply.stderr), ran |-> TRUE]
    ELSE Only({
         IF ~m.found
         THEN [v |-> Zero64, err |-> Error(<<"u","n","r","e","c","o","g","n","i","z","e","d"," ","d","u"," ","o","u","t","p","u","t",":"," ">> \o reply.stdout),
               ran |-> TRUE]
         ELSE Only({
              IF ~p.ok
              THEN [v |-> Zero64,
                    err |-> Error(<<"u","n","r","e","c","o","g","n","i","z","e","d"," ","d","u"," ","o","u","t","p","u","t",":"," ">> \o reply.stdout),
                    ran |-> TRUE]
              ELSE [v |-> p.v, err |-> NoError, ran |-> TRUE] :
              p \in {ParseInt(m.m1)} }) :
         m \in {duRE(reply.stdout)} })

\* ---------------------------------------------------------------- run

\* an int64 holding the small natural n
FromNat(n) == <<n, 0, 0, 0, 0, 0, 0>>

\* scanForToplevelStuff keeping directories only
scanDirectoriesOnly(root, listing) ==
    LET keep == {i \in 1..Len(listing) :
                    listing[i].dir /\ shouldDelete(listing[i].dir, listing[i].name)}
        RECURSIVE from(_)
        from(i) == IF i > Len(listing) THEN <<>>
                   ELSE IF i \in keep THEN <<Join(root, listing[i].name)>> \o from(i + 1)
                   ELSE from(i + 1)
    IN  from(1)

\* the roots after the entries i.. of the listing were looked at
RECURSIVE scanFrom(_, _, _)
scanFrom(root, listing, i) ==
    IF i > Len(listing) THEN <<>>
    ELSE IF shouldDelete(listing[i].dir, listing[i].name)
         THEN <<Join(root, listing[i].name)>> \o scanFrom(root, listing, i + 1)
         ELSE scanFrom(root, listing, i + 1)

\* the closing loop of scanForToplevelStuff: the paths of the listed entries
\* shouldDelete accepts, in the order of the listing
scanForToplevelStuff(root, listing) == scanFrom(root, listing, 1)

\* src/main.go: strings.Contains(err.Error(), "Permission denied")
permDeniedMain(e) == Contains(e.text, <<"P","e","r","m","i","s","s","i","o","n"," ","d","e","n","i","e","d">>)

\* src/unnamed/part_000: isPermDenied
isPermDenied(e) == e.failed /\ Contains(ToLower(e.text), <<"p","e","r","m","i","s","s","i","o","n"," ","d","e","n","i","e","d">>)

\* PermDenied taking every error for a permission error
PermDeniedAnyError(b, e) == e.failed

\* the test run makes of a non-nil error before it skips a candidate
PermDenied(b, e) == IF b = "main" THEN permDeniedMain(e) ELSE isPermDenied(e)

\* the error run returns for a failed listing
ScanError(b, root, e) ==
    IF b = "main" THEN e
    ELSE Error(<<"f","a","i","l","e","d"," ","t","o"," ","s","c","a","n"," ","f","o","r"," ","c","r","u","f","t",":"," ","c","o","u","l","d"," ","n","o","t"," ","l","i","s","t"," ","c","o","n","t","e","n","t","s"," ","o","f"," ">> \o root
               \o <<":"," ">> \o e.text)

\* the error run returns for a fatal estimation error
EstimateError(b, dir, e) ==
    IF b = "main" THEN e
    ELSE Error(<<"c","o","u","l","d"," ","n","o","t"," ","e","s","t","i","m","a","t","e"," ","t","r","e","e"," ","s","i","z","e"," ","o","f"," ">> \o dir \o <<":"," ">> \o e.text)

\* the error run returns for a fatal deletion error
DeleteError(b, dir, e) ==
    IF b = "main" THEN e
    ELSE Error(<<"f","a","i","l","e","d"," ","t","o"," ","d","e","l","e","t","e"," ","c","r","u","f","t"," ">> \o dir \o <<":"," ">> \o e.text)

Stdout(text) == [stream |-> "stdout", text |-> text]
Stderr(text) == [stream |-> "stderr", text |-> text]

\* the line main prints for the error run returned
ErrorLine(e) == Stderr(<<"E","R","R","O","R",":"," ">> \o e.text \o <<"\n">>)

\* the line of a candidate skipped in the estimation loop
EstimateSkipLine(b, dir, e) ==
    IF b = "main"
    THEN Stdout(<<"E","R","R",":"," ","s","k","i","p","p","i","n","g"," ">> \o dir \o <<" ","f","o","r"," ","e","s","t","i","m","a","t","i","o","n",":"," ">> \o e.text \o <<"\n">>)
    ELSE Stderr(<<"W","A","R","N",":"," ","s","k","i","p","p","i","n","g"," ">> \o dir \o <<" ","f","o","r"," ","e","s","t","i","m","a","t","i","o","n",":"," ">> \o e.text \o <<"\n">>)

\* the line of a candidate skipped in the deletion loop
DeleteSkipLine(b, dir, e) ==
    IF b = "main"
    THEN Stdout(<<"E","R","R",":"," ","s","k","i","p","p","i","n","g"," ">> \o dir \o <<":"," ">> \o e.text \o <<"\n">>)
    ELSE Stderr(<<"W","A","R","N",":"," ","s","k","i","p","p","i","n","g"," ">> \o dir \o <<" ","f","o","r"," ","d","e","l","e","t","i","o","n",":"," ">> \o e.text \o <<"\n">>)

DryRunLine(b, dir) ==
    IF b = "main"
    THEN Stdout(<<"D","R","Y","-","R","U","N",":"," ","d","e","l","e","t","i","n","g"," ">> \o dir \o <<"\n">>)
    ELSE Stdout(<<"I","N","F","O",":"," ","D","R","Y","-","R","U","N",":"," ","d","e","l","e","t","i","n","g"," ">> \o dir \o <<"\n">>)

DeletingLine(b, dir) ==
    IF b = "main"
    THEN Stdout(<<"d","e","l","e","t","i","n","g"," ">> \o dir \o <<"\n">>)
    ELSE Stdout(<<"I","N","F","O",":"," ","d","e","l","e","t","i","n","g",":"," ">> \o dir \o <<"\n">>)

SummaryLine(b, total, n) ==
    Stdout((IF b = "main" THEN <<>> ELSE <<"I","N","F","O",":"," ">>)
           \o <<"e","s","t","i","m","a","t","e","d"," ","s","a","v","i","n","g","s"," ","~">> \o humanizeBytes(total) \o <<" ","f","r","o","m"," ">>
           \o FormatInt(FromNat(n)) \o <<" ","d","i","r","e","c","t","o","r","i","e","s","\n">>)

NoSummary == [printed |-> FALSE, total |-> <<>>, count |-> 0]

\* an external call run made: the operation, its path, what it returned and the
\* top-level paths the file system held when it was made
Call(op, path, reply, before) ==
    [op |-> op, path |-> path, reply |-> reply, before |-> before]

\* run returns e: main prints it and exits with status 1
Fail(e) ==
    /\ pc' = "failed"
    /\ err' = e
    /\ exitCode' = 1
    /\ log' = Append(log, ErrorLine(e))

\* run up to the first loop: the -tmp-root check and scanForToplevelStuff
Begin ==
    /\ pc = "start"
    /\ \/ /\ tmpRoot = <<>>
          /\ Fail(Error(<<"m","i","s","s","i","n","g"," ","r","e","q","u","i","r","e","d"," ","-","t","m","p","-","r","o","o","t"," ","a","r","g","u","m","e","n","t">>))
          /\ UNCHANGED <<dirs, idx>>
       \/ /\ tmpRoot # <<>>
          /\ \E e \in ReadDirErrors(tmpRoot) :
                \/ /\ e.failed
                   /\ Fail(ScanError(build, tmpRoot, e))
                   /\ UNCHANGED <<dirs, idx>>
                \/ /\ ~e.failed
                   /\ dirs' = scanForToplevelStuff(tmpRoot, files)
                   /\ idx' = 1
                   /\ pc' = "estimate"
                   /\ UNCHANGED <<err, exitCode, log>>
    /\ UNCHANGED <<build, tmpRoot, dryRun, files, fs, totalBytes, calls, summary,
                   probe, answer>>

\* Estimate with the two loops of run fused: a measured candidate is removed at once
EstimateAndDelete ==
    /\ pc = "estimate"
    /\ idx <= Len(dirs)
    /\ \E dir \in {dirs[idx]} : \E reply \in DuReplies(dir) :
        \E r \in {estimateTreeSize(dir, reply)} :
              /\ ~r.err.failed
              /\ calls' = calls \o <<Call("du", dir, reply, fs),
                                     Call("remove", dir, NoError, fs)>>
              /\ fs' = IF dryRun THEN fs ELSE fs \ {dir}
              /\ totalBytes' = Add64(totalBytes, r.v)
              /\ idx' = idx + 1
    /\ UNCHANGED <<build, tmpRoot, dryRun, files, dirs, summary, probe, answer,
                   pc, err, exitCode, log>>

\* one turn of the estimation loop
Estimate ==
    /\ pc = "estimate"
    /\ idx <= Len(dirs)
    /\ \E dir \in {dirs[idx]} : \E reply \in DuReplies(dir) :
        \E r \in {estimateTreeSize(dir, reply)} :
              /\ calls' = IF r.ran THEN Append(calls, Call("du", dir, reply, fs))
                          ELSE calls
              /\ \/ /\ r.err.failed
                    /\ PermDenied(build, r.err)
                    /\ log' = Append(log, EstimateSkipLine(build, dir, r.err))
                    /\ totalBytes' = Add64(totalBytes, r.v)
                    /\ idx' = idx + 1
                    /\ UNCHANGED <<pc, err, exitCode>>
                 \/ /\ r.err.failed
                    /\ ~PermDenied(build, r.err)
                    /\ Fail(EstimateError(build, dir, r.err))
                    /\ UNCHANGED <<totalBytes, idx>>
                 \/ /\ ~r.err.failed
                    /\ totalBytes' = Add64(totalBytes, r.v)
                    /\ idx' = idx + 1
                    /\ UNCHANGED <<pc, err, exitCode, log>>
    /\ UNCHANGED <<build, tmpRoot, dryRun, files, fs, dirs, summary, probe, answer>>

\* the estimation loop is over: the deletion loop begins
StartDelete ==
    /\ pc = "estimate"
    /\ idx > Len(dirs)
    /\ pc' = "delete"
    /\ idx' = 1
    /\ UNCHANGED <<build, tmpRoot, dryRun, files, fs, dirs, totalBytes, calls, log,
                   summary, err, exitCode, probe, answer>>

\* a turn of the deletion loop without -dry-run: os.RemoveAll(dir)
RemoveTurn(dir) ==
    \E e \in RemoveReplies(dir) :
        /\ calls' = Append(calls, Call("remove", dir, e, fs))
        /\ \/ /\ ~e.failed
              /\ fs' = fs \ {dir}
              /\ log' = Append(log, DeletingLine(build, dir))
              /\ idx' = idx + 1
              /\ UNCHANGED <<pc, err, exitCode>>
           \/ /\ e.failed
              /\ PermDenied(build, e)
              /\ log' = log \o <<DeletingLine(build, dir), DeleteSkipLine(build, dir, e)>>
              /\ idx' = idx + 1
              /\ UNCHANGED <<pc, err, exitCode, fs>>
           \/ /\ e.failed
              /\ ~PermDenied(build, e)
              /\ pc' = "failed"
              /\ err' = DeleteError(build, dir, e)
              /\ exitCode' = 1
              /\ log' = log \o <<DeletingLine(build, dir),
                                 ErrorLine(DeleteError(build, dir, e))>>
              /\ UNCHANGED <<idx, fs>>

\* DryRunTurn without the dryRun test of the loop: the path is removed all the same
DryRunTurnRemoves(dir) == RemoveTurn(dir)

\* a turn of the deletion loop with -dry-run: the path is only printed
DryRunTurn(dir) ==
    /\ log' = Append(log, DryRunLine(build, dir))
    /\ idx' = idx + 1
    /\ UNCHANGED <<pc, err, exitCode, fs, calls>>

\* one turn of the deletion loop
Delete ==
    /\ pc = "delete"
    /\ idx <= Len(dirs)
    /\ \E dir \in {dirs[idx]} :
          \/ dryRun /\ DryRunTurn(dir)
          \/ ~dryRun /\ RemoveTurn(dir)
    /\ UNCHANGED <<build, tmpRoot, dryRun, files, dirs, totalBytes, summary,
                   probe, answer>>

\* the deletion loop is over: run prints the summary and returns nil
Summary ==
    /\ pc = "delete"
    /\ idx > Len(dirs)
    /\ summary' = [printed |-> TRUE, total |-> humanizeBytes(totalBytes),
                   count |-> Len(dirs)]
    /\ log' = Append(log, SummaryLine(build, totalBytes, Len(dirs)))
    /\ pc' = "done"
    /\ exitCode' = 0
    /\ UNCHANGED <<build, tmpRoot, dryRun, files, fs, dirs, idx, totalBytes, calls,
                   err, probe, answer>>

NoProbe == [fn |-> "none"]

Init ==
    /\ build \in Builds
    /\ tmpRoot \in Roots
    /\ dryRun \in BOOLEAN
    /\ files \in Listings
    /\ fs = {Join(tmpRoot, files[i].name) : i \in 1..Len(files)}
    /\ pc = "start"
    /\ dirs = <<>>
    /\ idx = 1
    /\ totalBytes = Zero64
    /\ calls = <<>>
    /\ log = <<>>
    /\ summary = NoSummary
    /\ err = NoError
    /\ exitCode = -1
    /\ probe = NoProbe
    /\ answer = <<>>

Next == Begin \/ Estimate \/ StartDelete \/ Delete \/ Summary

Spec == Init /\ [][Next]_vars

\* ---------------------------------------------------------------- the pure functions alone

\* run does not take part: its variables rest
Idle ==
    /\ build = "main"
    /\ tmpRoot = <<>>
    /\ dryRun = FALSE
    /\ files = <<>>
    /\ fs = {}
    /\ pc = "idle"
    /\ dirs = <<>>
    /\ idx = 1
    /\ totalBytes = Zero64
    /\ calls = <<>>
    /\ log = <<>>
    /\ summary = NoSummary
    /\ err = NoError
    /\ exitCode = -1

\* entry names: the rules' own strings, longer and shorter ones, near misses
ProbeNames == {
    <<"0","0","7","-","a","g","e","n","t">>, <<"0","0","7","-","a","g","e","n","t","1","2","3">>, <<"0","0","7","-","a","g","e","n">>, <<"a","g","e","n","t","_","s","m","i","t","h","9">>, <<"g","o","-","b","u","i","l","d">>,
    <<"g","o","-","b","u","i","l","d","-","1">>, <<"g","o","-","b","u","i","l","d","-","1","2","3">>, <<"g","o","-","b","u","i","l">>, <<"x","g","o","-","b","u","i","l","d">>, <<"j","o","n","e","s","-","a","g","e","n","t","1">>, <<"T","e","s","t">>,
    <<"T","e","s","t","F","o","o">>, <<"t","e","s","t">>, <<"T","e","s">>, <<"t","e","s","t","-","a","g","e","n","t","-","1">>, <<"t","e","s","t","-","c","o","n","s","u","l","-","a","g","e","n","t","-","2">>,
    <<"t","e","s","t","-","c","o","n","s","u","l">>, <<"c","o","n","s","u","l">>, <<"c","o","n","s","u","l","-","t","e","s","t">>, <<"c","o","n","s","u","l","-","t","e","s","t","2">>, <<"c","o","n","s","u">>, <<"C","o","n","s","u","l">>,
    <<"A","g","e","n","t","1","-","a","g","e","n","t","-","x">>, <<"A","g","e","n","t","2","-","a","g","e","n","t">>, <<"A","g","e","n","t","3","-","a","g","e","n","t">>, <<"b","e","t","t","y","-","a","g","e","n","t">>,
    <<"b","o","b","-","a","g","e","n","t">>, <<"b","o","n","n","i","e","-","a","g","e","n","t">>, <<"d","c","1","-","a","g","e","n","t">>, <<"d","c","2","-","a","g","e","n","t">>, <<"d","c","3","-","a","g","e","n","t">>,
    <<"g","o","p","l","s","-">>, <<"g","o","p","l","s">>, <<"v","i","m","-","g","o">>, <<"d","c","1","-","c","o","n","s","u","l">>, <<"d","c","2","-","c","o","n","s","u","l","7">>, <<"t","e","s","t","-","c","o","n","t","a","i","n","e","r">>,
    <<"t","e","s","t","-","c","o","n","t","a","i","n">>, <<"k","e","e","p","m","e">>,
    <<"s","n","a","p","s","h","o","t">>, <<"s","n","a","p","s","h","o","t",".","b","i","n">>, <<"s","n","a","p","s","h","o">>, <<"x","s","n","a","p","s","h","o","t">>, <<"c","o","n","f","i","g","-","e","r","r","-">>,
    <<"c","o","n","f","i","g","-","e","r","r","-","1">>, <<"c","o","n","f","i","g","-","e","r","r">>, <<"g","o",".","x",".","m","o","d">>, <<"g","o",".","x",".","s","u","m">>, <<"g","o",".",".","m","o","d">>, <<"g","o",".","m","o","d">>,
    <<"g","o",".","x",".","m","o","d",".","b","a","k">>, <<"x","g","o",".","x",".","m","o","d">>, <<"g","o",".","x",".","m","o">>, <<"g","o","X","x",".","m","o","d">>, <<"g","o",".","a","\n","b",".","m","o","d">>,
    <<"g","o","p","l","s",".","a","b","c","-","h","e","a","p",".","p","b",".","g","z">>, <<"g","o","p","l","s",".","a","b","c","-","h","e","a","p","X","p","b","X","g","z">>, <<"g","o","p","l","s",".","a","b","c","-","h","e","a","p",".","p","b",".","g","z","x">>,
    <<"x","g","o","p","l","s",".","a","b","c","-","h","e","a","p",".","p","b",".","g","z">>, <<"g","o","p","l","s",".","-","g","o","r","o","u","t","i","n","e","s",".","t","x","t">>, <<"g","o","p","l","s",".","1","-","g","o","r","o","u","t","i","n","e","s",".","t","x","t">>,
    <<"g","o","p","l","s",".","1","-","g","o","r","o","u","t","i","n","e","s",".","t","x","t","~">>, <<"g","o","p","l","s","-",".","l","o","g">>, <<"g","o","p","l","s","-","l","o","g">>, <<"g","o","p","l","s","-","x","l","o","g">>,
    <<"g","o","p","l","s","-","x",".","l","o","g">>, <<"g","o","p","l","s","-","a",".","l","o","g","2">>, <<"g","o","p","l","s",".","a",".","z","i","p">>, <<"g","o","p","l","s",".","z","i","p">>, <<"g","o","p","l","s",".",".","z","i","p">>,
    <<"g","o","p","l","s",".","a",".","z","i","p","x">> }

InitMatch ==
    /\ Idle
    /\ probe \in [fn : {"shouldDelete"}, dir : BOOLEAN, name : ProbeNames]
    /\ answer = <<>>

\* shouldDelete is called with the probe
ApplyShouldDelete ==
    /\ probe.fn = "shouldDelete"
    /\ answer = <<>>
    /\ answer' = <<shouldDelete(probe.dir, probe.name)>>
    /\ UNCHANGED <<probe, runVars>>

SpecMatch == InitMatch /\ [][ApplyShouldDelete]_vars

\* byte counts: every digit 0, 1 or 1023, the sign bit clear or set
ByteCounts ==
    { d \o <<t>> : d \in [1..6 -> {0, 1, 1023}], t \in {0, 1, 7, 8, 15} }

InitHumanize ==
    /\ Idle
    /\ probe \in [fn : {"humanizeBytes"}, v : ByteCounts]
    /\ answer = <<>>

\* humanizeBytes is called with the probe
ApplyHumanize ==
    /\ probe.fn = "humanizeBytes"
    /\ answer = <<>>
    /\ answer' = <<humanizeBytes(probe.v)>>
    /\ UNCHANGED <<probe, runVars>>

SpecHumanize == InitHumanize /\ [][ApplyHumanize]_vars

\* ---------------------------------------------------------------- what the claims speak of

Last(s) == s[Len(s)]

DuCalls == {j \in 1..Len(calls) : calls[j].op = "du"}
RemoveCalls == {j \in 1..Len(calls) : calls[j].op = "remove"}

\* the text holds the phrase "permission denied" in some letter case
PermissionPhrase(text) == Contains(ToLower(text), <<"p","e","r","m","i","s","s","i","o","n"," ","d","e","n","i","e","d">>)

\* the description of the error a failed run of du gives estimateTreeSize
ToolErrorText(reply) == reply.text \o <<":"," ">> \o reply.stderr

\* du's output opens with decimal digits and a white-space character
OpensWithNumber(out) ==
    \E n \in 1..(Len(out) - 1) :
        /\ \A i \in 1..n : IsDigit(out[i])
        /\ IsSpace(out[n + 1])

\* the digits du's output opens with
OpeningNumber(out) ==
    SubSeq(out, 1, CHOOSE n \in 1..(Len(out) - 1) :
                       /\ \A i \in 1..n : IsDigit(out[i])
                       /\ ~IsDigit(out[n + 1]))

\* the decimal a, without leading zeros, is greater than the decimal b
DecimalGreater(a, b) ==
    \/ Len(a) > Len(b)
    \/ /\ Len(a) = Len(b)
       /\ \E i \in 1..Len(a) :
             /\ SubSeq(a, 1, i - 1) = SubSeq(b, 1, i - 1)
             /\ DigitVal(a[i]) > DigitVal(b[i])

MaxInt64Text == <<"9","2","2","3","3","7","2","0","3","6","8","5","4","7","7","5","8","0","7">>

\* the reply is a total du measured: estimation succeeds
Measured(reply) ==
    /\ ~reply.failed
    /\ OpensWithNumber(reply.stdout)
    /\ ~DecimalGreater(OpeningNumber(reply.stdout), MaxInt64Text)

\* estimation fails on the reply with a permission-denied error
EstimateDenied(reply) == reply.failed /\ PermissionPhrase(ToolErrorText(reply))

\* estimation fails on the reply with another error: the tool failed, its output
\* is not a number and a space, or the number leaves int64
EstimateFatal(reply) == ~Measured(reply) /\ ~EstimateDenied(reply)

\* the listing was read and filtered
Scanned == pc \in {"estimate", "delete", "done"} \/ (pc = "failed" /\ calls # <<>>)

\* the positions of the listing isEligible accepts
EligibleIdx == {i \in 1..Len(files) : shouldDelete(files[i].dir, files[i].name)}

\* the k-th position of the set E of positions
Nth(E, k) == CHOOSE i \in E : Cardinality({j \in E : j < i}) = k - 1

\* path is the entry name right under root
IsChildOf(path, root, name) ==
    /\ name # <<>>
    /\ \A i \in 1..Len(name) : name[i] # "/"
    /\ \/ path = root \o <<"/">> \o name
       \/ root # <<>> /\ Last(root) = "/" /\ path = root \o name

\* the sum of the totals of the du calls 1..j that measured one
RECURSIVE MeasuredSum(_)
MeasuredSum(j) ==
    IF j = 0 THEN Zero64
    ELSE Only({ IF calls[j].op = "du" /\ Measured(calls[j].reply)
                THEN Add64(before, ParseInt(OpeningNumber(calls[j].reply.stdout)).v)
                ELSE before : before \in {MeasuredSum(j - 1)} })

\* the position in dirs of the candidate of the remove call j
RemovePosition(j) == Cardinality({i \in RemoveCalls : i <= j})

\* ---------------------------------------------------------------- C1

\* C1: no deletion is issued before estimateTreeSize has returned for every
\* candidate, no estimation follows a deletion, and every estimation was made
\* while all candidates were still in place.
C1_EstimationBeforeDeletion ==
    /\ \A j \in RemoveCalls :
          /\ \A k \in 1..Len(dirs) :
                \E i \in DuCalls : i < j /\ calls[i].path = dirs[k]
          /\ \A i \in DuCalls : i < j
    /\ \A i \in DuCalls : \A k \in 1..Len(dirs) : dirs[k] \in calls[i].before

C1_Witness ==
    /\ ~dryRun
    /\ pc = "done"
    /\ Len(dirs) >= 2
    /\ Cardinality(DuCalls) = Len(dirs)
    /\ \E j \in RemoveCalls : ~calls[j].reply.failed /\ calls[j].path \notin fs

\* ---------------------------------------------------------------- C2

\* C2: with -dry-run no deletion is ever issued and nothing leaves the file
\* system; and the summary run prints, dry or live, is the humanized sum of
\* the measured sizes and the number of eligible entries of the listing: the
\* same for both runs on the same listing and sizes.
C2_DryRunDeletesNothing ==
    /\ dryRun => /\ RemoveCalls = {}
                 /\ \A k \in 1..Len(dirs) : dirs[k] \in fs
    /\ summary.printed =>
          /\ summary.total = humanizeBytes(MeasuredSum(Len(calls)))
          /\ summary.count = Cardinality(EligibleIdx)

C2_Witness ==
    /\ dryRun
    /\ pc = "done"
    /\ summary.printed
    /\ summary.count >= 2
    /\ summary.total = <<"1","K">>
    /\ Len(log) = Len(dirs) + 1

\* ---------------------------------------------------------------- C3

\* C3: once the listing is scanned the candidates are the eligible entries of
\* the listing, each as a direct child of the root, in listing order, and the
\* root is none of them; every path passed to deletion is a candidate, and an
\* ineligible entry is never passed to deletion and stays in place.
C3_CandidatesAreTheEligible ==
    \A E \in {EligibleIdx} :
    /\ Scanned =>
          /\ Len(dirs) = Cardinality(E)
          /\ \A k \in 1..Len(dirs) :
                /\ IsChildOf(dirs[k], tmpRoot, files[Nth(E, k)].name)
                /\ dirs[k] # tmpRoot
                /\ dirs[k] \o <<"/">> # tmpRoot
    /\ ~Scanned => dirs = <<>>
    /\ \A j \in RemoveCalls : \E k \in 1..Len(dirs) : calls[j].path = dirs[k]
    /\ \A i \in (1..Len(files)) \ E :
          /\ tmpRoot # <<>> => \E p \in fs : IsChildOf(p, tmpRoot, files[i].name)
          /\ \A j \in RemoveCalls : ~IsChildOf(calls[j].path, tmpRoot, files[i].name)

C3_Witness ==
    /\ pc = "done"
    /\ ~dryRun
    /\ Len(files) = 3
    /\ Len(dirs) = 2
    /\ ~shouldDelete(files[2].dir, files[2].name)
    /\ Cardinality(fs) = 1
    /\ Last(tmpRoot) = "/"

\* ---------------------------------------------------------------- C4

\* C4: an estimation that fails with a permission-denied error, whatever the
\* letter case of the phrase, does not abort run; when every other estimation
\* succeeds the deletion phase is reached, and the summary holds the sum of
\* the successful estimations and counts every candidate.
C4_EstimateDeniedIsSkipped ==
    /\ \A j \in DuCalls :
          EstimateDenied(calls[j].reply) => ~(pc = "failed" /\ j = Len(calls))
    /\ (/\ Scanned
        /\ Cardinality(DuCalls) = Len(dirs)
        /\ \A j \in DuCalls : /\ ~EstimateFatal(calls[j].reply)
                              /\ calls[j].path = dirs[j])
          => /\ pc \in {"estimate", "delete", "done"} \/ RemoveCalls # {}
             /\ totalBytes = MeasuredSum(Len(calls))
             /\ summary.printed =>
                   /\ summary.total = humanizeBytes(MeasuredSum(Len(calls)))
                   /\ summary.count = Len(dirs)

\* ---------------------------------------------------------------- C5

\* C5: in a live run a deletion that fails with a permission-denied error,
\* whatever the letter case of the phrase, does not abort run: the later
\* candidates are still passed to deletion.
C5_DeleteDeniedIsSkipped ==
    \A j \in RemoveCalls :
        (calls[j].reply.failed /\ PermissionPhrase(calls[j].reply.text))
           => /\ ~(pc = "failed" /\ j = Len(calls))
              /\ pc = "done" => /\ summary.printed
                                /\ Cardinality(RemoveCalls) = Len(dirs)

\* ---------------------------------------------------------------- C6

\* C6: a deletion that fails with an error that is no permission-denied
\* condition aborts run at once with that error: it is the last call run
\* makes, no summary is printed, the candidates after it are never passed to
\* deletion and stay in place, and the candidates deleted before it stay
\* deleted.
C6_DeleteFatalAborts ==
    \A j \in RemoveCalls :
        (calls[j].reply.failed /\ ~PermissionPhrase(calls[j].reply.text))
           => /\ j = Len(calls)
              /\ pc = "failed"
              /\ exitCode = 1
              /\ err.failed
              /\ Contains(err.text, calls[j].reply.text)
              /\ ~summary.printed
              /\ calls[j].path = dirs[RemovePosition(j)]
              /\ \A k \in (RemovePosition(j) + 1)..Len(dirs) : dirs[k] \in fs
              /\ \A i \in RemoveCalls : ~calls[i].reply.failed => calls[i].path \notin fs

C6_Witness ==
    /\ pc = "failed"
    /\ Len(dirs) = 3
    /\ Cardinality(RemoveCalls) = 2
    /\ Last(calls).op = "remove"
    /\ Last(calls).reply.failed
    /\ ~PermissionPhrase(Last(calls).reply.text)
    /\ dirs[1] \notin fs
    /\ dirs[3] \in fs

\* ---------------------------------------------------------------- C7

\* C7: an estimation that fails with an error that is no permission-denied
\* condition (the tool failed, its output is not a number and a space, the
\* number leaves int64) aborts run at that candidate: it is the last call run
\* makes, nothing is deleted and no summary is printed.
C7_EstimateFatalAborts ==
    \A j \in DuCalls :
        EstimateFatal(calls[j].reply)
           => /\ j = Len(calls)
              /\ pc = "failed"
              /\ exitCode = 1
              /\ err.failed
              /\ RemoveCalls = {}
              /\ fs = calls[j].before
              /\ \A k \in 1..Len(dirs) : dirs[k] \in fs
              /\ ~summary.printed

C7_Witness ==
    /\ pc = "failed"
    /\ Len(dirs) = 3
    /\ Len(calls) = 2
    /\ Last(calls).op = "du"
    /\ ~Last(calls).reply.failed
    /\ OpensWithNumber(Last(calls).reply.stdout)
    /\ DecimalGreater(OpeningNumber(Last(calls).reply.stdout), MaxInt64Text)

\* ---------------------------------------------------------------- C8, C9

\* n is p followed by some suffix of n
StartsWith(n, p) == \E k \in 0..Len(n) : n = p \o SubSeq(n, k + 1, Len(n))

\* the whole of n, from its first to its last character, is a match of re
WholeMatch(re, n) == (Len(n) + 1) \in MatchEnds(re.body, 1, n, 1)

Applied(fn) == probe.fn = fn /\ answer # <<>>

\* C8: a directory is eligible exactly when its name is "consul-test" or starts
\* with a directory prefix; a directory named after a file rule only is not.
C8_DirectoryRules ==
    (Applied("shouldDelete") /\ probe.dir) =>
        /\ answer[1] = (\/ probe.name = <<"c","o","n","s","u","l","-","t","e","s","t">>
                        \/ \E p \in Range(eligiblePrefixes) : StartsWith(probe.name, p))
        /\ probe.name \in {<<"s","n","a","p","s","h","o","t">>, <<"c","o","n","f","i","g","-","e","r","r","-","1">>, <<"g","o",".","x",".","m","o","d">>} => answer[1] = FALSE
        /\ probe.name \in {<<"c","o","n","s","u","l","-","t","e","s","t">>, <<"g","o","-","b","u","i","l","d","-","1","2","3">>, <<"T","e","s","t","F","o","o">>} => answer[1] = TRUE

C8_Witness ==
    /\ Applied("shouldDelete")
    /\ probe.dir
    /\ probe.name = <<"c","o","n","f","i","g","-","e","r","r","-","1">>
    /\ answer = <<FALSE>>

\* C9: a file is eligible exactly when its name starts with a file prefix or
\* the whole of it matches a file pattern; a file named after a directory rule
\* only, or holding a match of a pattern in a longer name, is not.
C9_FileRules ==
    (Applied("shouldDelete") /\ ~probe.dir) =>
        /\ answer[1] = (\/ \E p \in Range(eligibleFilePrefixes) : StartsWith(probe.name, p)
                        \/ \E re \in Range(eligibleFilePatterns) : WholeMatch(re, probe.name))
        /\ probe.name \in {<<"g","o","-","b","u","i","l","d","-","1">>, <<"c","o","n","s","u","l","-","t","e","s","t">>, <<"g","o",".","x",".","m","o","d",".","b","a","k">>, <<"x","g","o",".","x",".","m","o","d">>}
              => answer[1] = FALSE
        /\ probe.name \in {<<"g","o",".","x",".","m","o","d">>, <<"s","n","a","p","s","h","o","t",".","b","i","n">>, <<"g","o","p","l","s",".","a","b","c","-","h","e","a","p",".","p","b",".","g","z">>}
              => answer[1] = TRUE

C9_Witness ==
    /\ Applied("shouldDelete")
    /\ ~probe.dir
    /\ probe.name = <<"g","o",".","x",".","m","o","d",".","b","a","k">>
    /\ answer = <<FALSE>>

\* ---------------------------------------------------------------- C10

\* v divided by 1024 k times, truncating
Quotient(v, k) == [i \in 1..7 |-> IF i + k <= 7 THEN v[i + k] ELSE 0]

\* the int64 q is below 1024
Below1024(q) == \A i \in 2..7 : q[i] = 0

\* the number of divisions humanize makes of the non-negative v
Divisions(v) ==
    IF \E k \in 0..4 : Below1024(Quotient(v, k))
    THEN CHOOSE k \in 0..4 : /\ Below1024(Quotient(v, k))
                             /\ \A m \in 0..(k - 1) : ~Below1024(Quotient(v, m))
    ELSE 4

\* the natural number an int64 below 2^30 holds
NatOf(q) == q[1] + 1024 * q[2] + 1048576 * q[3]

\* the decimal numeral of the natural number n
RECURSIVE Decimal(_)
Decimal(n) ==
    IF n < 10 THEN <<DigitChars[n + 1]>>
    ELSE Append(Decimal(n \div 10), DigitChars[(n % 10) + 1])

Units == <<"B","K","M","G","T">>

\* C10: for a non-negative v, humanizeBytes(v) is v divided by 1024 the least
\* number of times in 0..4 that brings it below 1024 (four times when none
\* does), in decimal, followed by the unit of that number of divisions.
C10_HumanizeBytes ==
    (Applied("humanizeBytes") /\ ~IsNeg(probe.v)) =>
        \A k \in {Divisions(probe.v)} :
        /\ answer[1] = Append(Decimal(NatOf(Quotient(probe.v, k))), Units[k + 1])
        /\ probe.v = <<0, 0, 0, 0, 0, 0, 0>> => answer[1] = <<"0","B">>
        /\ probe.v = <<1023, 0, 0, 0, 0, 0, 0>> => answer[1] = <<"1","0","2","3","B">>
        /\ probe.v = <<0, 1, 0, 0, 0, 0, 0>> => answer[1] = <<"1","K">>
        /\ probe.v = <<0, 0, 1, 0, 0, 0, 0>> => answer[1] = <<"1","M">>
        /\ probe.v = <<0, 0, 0, 1, 0, 0, 0>> => answer[1] = <<"1","G">>
        /\ probe.v = <<0, 0, 0, 0, 1, 0, 0>> => answer[1] = <<"1","T">>
        /\ probe.v = <<0, 0, 0, 0, 0, 1, 0>> => answer[1] = <<"1","0","2","4","T">>

C10_Witness ==
    /\ Applied("humanizeBytes")
    /\ probe.v = <<0, 0, 0, 0, 0, 1, 0>>
    /\ answer = <<<<"1","0","2","4","T">>>>

====
